---- MODULE Spec2Model ----
(***************************************************************************)
(* Model of the monitoring core of llm_pdf_reading:                        *)
(*   monitoring/model_monitor.py        ModelMonitor                       *)
(*   monitoring/performance_tracker.py  PerformanceTracker                 *)
(*   monitoring/experiment_manager.py   ExperimentManager                  *)
(* The specifications share the variables:                                 *)
(*   SpecRequests       record_request / reset_stats, one call at a time   *)
(*   SpecWindow         a long run of requests to one model                *)
(*   SpecRecordThreads  record_request from two threads, load by store     *)
(*   SpecLifecycle      start_monitoring / stop_monitoring from two caller *)
(*                      threads, interleaved with the loop threads         *)
(*   SpecLifecycleSeq   the same, one call at a time                       *)
(*   SpecAlerts         the loop sampling while requests are recorded      *)
(*   SpecCallbacks      the loop sampling while callbacks are registered   *)
(*   SpecHealth         the loop's health evaluation, requests and waits   *)
(*   SpecReset          reset_stats among samples, requests and callbacks  *)
(*   SpecHealthThreads  the health evaluation item by item while other     *)
(*                      threads record requests                            *)
(*   SpecTracker        concurrent track_operation scopes, clear_history   *)
(*   SpecCompleted      a long run of operations, one after another        *)
(*   SpecHistoryThreads concurrent scopes, _add_to_history step by step    *)
(*   SpecManager        the experiment recorder, one call at a time        *)
(*   SpecManagerThreads the experiment recorder called from two threads    *)
(***************************************************************************)
EXTENDS Integers, Sequences, FiniteSets, TLC

\* ---------------------------------------------------------------- bounds
MaxRequests == 4
MaxNow == 2
MaxLoops == 2
MaxTicks == 2
MaxOps == 2
MaxClock == 1
MaxRecCalls == 3
MaxRuns == 2
MaxOver == 3
MaxRaceCalls == 2
MaxCallbacks == 2
MaxLate == 1
MaxFailures == 1

\* ------------------------------------------------------ program constants
ModelWindow == 50
BufferCap == 100
CompletedCap == 100
HistoryCap == 50
InactiveMinutes == 5
MemoryLimit == 80
ResponseTimeLimit == 30
ErrorRateInverse == 10

\* ------------------------------------------------------------ input sets
Models == {"m1", "m2"}
NoModel == ""
WindowModel == "m1"
Latencies == {1, 3}
SlowLatencies == {1, 40}
Waits == {1, InactiveMinutes}
FastLatency == 1
HealthRequests == {<<TRUE, "m1">>, <<FALSE, "m2">>}
LowMemory == 50
MemSamples == {50, 90}
OpNames == {"a", "b"}
Outcomes == {"ok", "Exception", "BaseException"}
Callers == {"c1", "c2"}
Loops == 1..MaxLoops
Scopes == 1..MaxOps
None == -1
Requesters == {"t1", "t2"}
RecThreads == {"r1", "r2"}
ExperimentId == 1
LogKinds == {"llm", "pdf", "qa"}
AlertTypes == {"memory_high", "response_time_high", "error_rate_high"}
Queries == {"compare_models", "get_best_model", "export_experiment_data",
            "cleanup_old_runs"}

VARIABLES
    \* ModelMonitor
    is_monitoring, monitor_thread, stats, response_times, error_counts,
    memory_usage, model_states,
    \* threads: the loop threads and the threads calling start/stop
    lpc, cpc, joinTarget,
    \* PerformanceTracker
    active_operations, completed_operations, operation_history, opstats,
    spc, opName, opId, outcome, raised,
    \* time: now in minutes (monitor), clock in milliseconds (tracker)
    now, clock,
    \* history variables
    lastOp, nreq, nticks, stopSignalled, joinTimedOut, endRuns,
    \* ModelMonitor: the registered alert callbacks, and the log of the
    \* evaluations of _check_alerts (history)
    alert_callbacks, alertLog,
    \* the calls of record_request since construction or reset (history)
    reqHist,
    \* record_request step by step: the calling threads' positions, arguments
    \* and the value each has read; calls begun and returned (history)
    qpc, qarg, qtmp, qbegun, qdone,
    \* ExperimentManager, and the state of the tracking service behind it
    mlflow_available, experiment_id, current_run, svcStack, svcRuns,
    \* the threads calling the recorder: position and last return value;
    \* calls begun and calls that reached the service (history)
    rpc, rret, nrec, svcCalls,
    \* operations run one after another: how many have ended (history)
    nops,
    \* _check_model_health step by step: for each loop thread the models the
    \* iteration began with (history), those still to visit and the size of
    \* model_states the iterator was created with
    healthIter

monitorVars == <<is_monitoring, monitor_thread, stats, response_times,
                 error_counts, memory_usage, model_states>>
threadVars == <<lpc, cpc, joinTarget>>
trackerVars == <<active_operations, completed_operations, operation_history,
                 opstats, spc, opName, opId, outcome, raised>>
histVars == <<lastOp, nreq, nticks, stopSignalled, joinTimedOut, endRuns>>
alertVars == <<alert_callbacks, alertLog>>
raceVars == <<qpc, qarg, qtmp, qbegun, qdone>>
recorderVars == <<mlflow_available, experiment_id, current_run, svcStack,
                  svcRuns, rpc, rret, nrec, svcCalls>>
stepVars == <<nops, healthIter>>
vars == <<monitorVars, threadVars, trackerVars, now, clock, histVars,
          alertVars, reqHist, raceVars, recorderVars, stepVars>>

\* ----------------------------------------------------------------- helpers
\* a deque that never evicts
DequeAppendKeepAll(q, x, cap) == Append(q, x)

\* collections.deque(maxlen=cap).append
DequeAppend(q, x, cap) ==
    IF Len(q) >= cap THEN Append(Tail(q), x) ELSE Append(q, x)

RECURSIVE SeqSum(_)
SeqSum(q) == IF q = <<>> THEN 0 ELSE Head(q) + SeqSum(Tail(q))

\* sum(q) / len(q), kept as the fraction <<numerator, denominator>>
Mean(q) == <<SeqSum(q), Len(q)>>
Zero == <<0, 1>>
One == <<1, 1>>

\* lst[:n], the oldest entries kept
LastNOldest(q, n) == IF Len(q) > n THEN SubSeq(q, 1, n) ELSE q

\* lst[-n:]
LastN(q, n) == IF Len(q) > n THEN SubSeq(q, Len(q) - n + 1, Len(q)) ELSE q

Range(f) == {f[x] : x \in DOMAIN f}

InitStats(t) ==
    [total_requests |-> 0, successful_requests |-> 0, failed_requests |-> 0,
     avg_response_time |-> Zero, current_memory_usage |-> 0,
     uptime_start |-> t, last_error |-> None]

NewModelState ==
    [total_requests |-> 0, successful_requests |-> 0, failed_requests |-> 0,
     avg_response_time |-> Zero, last_activity |-> None, status |-> "unknown",
     response_times |-> <<>>]

\* nothing recorded since construction or the last reset
NoRequests ==
    [total |-> 0, successful |-> 0,
     named |-> [m \in Models |-> 0], latencies |-> [m \in Models |-> <<>>]]

\* no iteration over model_states in progress
NoIteration == [began |-> {}, left |-> {}, size |-> 0]

\* a run of the tracking service as just created
NewRun == [status |-> "RUNNING", closes |-> 0, writes |-> 0]

\* ------------------------------------------------------------------- Init
\* ModelMonitor() and PerformanceTracker() as constructed; no call in progress
InitMonitor ==
    /\ is_monitoring = FALSE
    /\ monitor_thread = 0
    /\ stats = InitStats(0)
    /\ response_times = <<>>
    /\ error_counts = <<>>
    /\ memory_usage = <<>>
    /\ model_states = [m \in {} |-> NewModelState]
    /\ lpc = [l \in Loops |-> "none"]
    /\ cpc = [c \in Callers |-> "idle"]
    /\ joinTarget = [c \in Callers |-> 0]
    /\ active_operations = [i \in {} |-> 0]
    /\ completed_operations = <<>>
    /\ operation_history = [n \in {} |-> <<>>]
    /\ opstats = [s \in Scopes |-> [start_time |-> None, end_time |-> None,
                                    duration |-> None, error |-> FALSE]]
    /\ spc = [s \in Scopes |-> "new"]
    /\ opName = [s \in Scopes |-> ""]
    /\ opId = [s \in Scopes |-> <<"", None>>]
    /\ outcome = [s \in Scopes |-> "none"]
    /\ raised = [s \in Scopes |-> FALSE]
    /\ now = 0
    /\ clock = 0
    /\ lastOp = <<"init", "">>
    /\ nreq = 0
    /\ nticks = 0
    /\ stopSignalled = [l \in Loops |-> FALSE]
    /\ joinTimedOut = FALSE
    /\ endRuns = [s \in Scopes |-> 0]
    /\ alert_callbacks = <<>>
    /\ alertLog = <<>>
    /\ reqHist = NoRequests
    /\ qpc = [t \in Requesters |-> "idle"]
    /\ qarg = [t \in Requesters |-> [success |-> FALSE, rt |-> 0, model |-> NoModel]]
    /\ qtmp = [t \in Requesters |-> 0]
    /\ qbegun = 0
    /\ qdone = 0
    /\ nops = 0
    /\ healthIter = [l \in Loops |-> NoIteration]

\* ExperimentManager.__init__ and _setup_mlflow: avail is whether mlflow was
\* imported and set up, exp the experiment id that was obtained (or None);
\* the tracking service starts with no run
InitManager(avail, exp) ==
    /\ mlflow_available = avail
    /\ experiment_id = exp
    /\ current_run = None
    /\ svcStack = <<>>
    /\ svcRuns = [r \in {} |-> NewRun]
    /\ rpc = [t \in RecThreads |-> "idle"]
    /\ rret = [t \in RecThreads |-> <<"", None>>]
    /\ nrec = 0
    /\ svcCalls = 0

\* the program with tracking set up
Init == InitMonitor /\ InitManager(TRUE, ExperimentId)

\* =========================================================== ModelMonitor
\* history: one more call record_request(success, rt, model) has been made
Logged(h, success, rt, model) ==
    [total |-> h.total + 1,
     successful |-> h.successful + (IF success THEN 1 ELSE 0),
     named |-> [m \in Models |-> h.named[m] + (IF m = model THEN 1 ELSE 0)],
     latencies |-> [m \in Models |->
                      IF m = model /\ success
                      THEN Append(h.latencies[m], rt) ELSE h.latencies[m]]]

\* _update_model_state with a failed request left uncounted
UpdateModelStateDropFailure(states, model, success, rt) ==
    LET st0 == IF model \in DOMAIN states THEN states[model] ELSE NewModelState
        st1 == [st0 EXCEPT !.total_requests = @ + 1, !.last_activity = now]
        st2 == IF success
               THEN [st1 EXCEPT !.successful_requests = @ + 1]
               ELSE st1
    IN [m \in DOMAIN states \cup {model} |->
            IF m = model THEN st2 ELSE states[m]]

\* _update_model_state that marks the model active
UpdateModelStateActivates(states, model, success, rt) ==
    LET st0 == IF model \in DOMAIN states THEN states[model] ELSE NewModelState
        st1 == [st0 EXCEPT !.total_requests = @ + 1, !.last_activity = now,
                              !.status = "active"]
        st2 == IF success
               THEN LET q == DequeAppend(st1.response_times, rt, ModelWindow)
                    IN [st1 EXCEPT !.successful_requests = @ + 1,
                                   !.response_times = q,
                                   !.avg_response_time =
                                       IF q # <<>> THEN Mean(q) ELSE @]
               ELSE [st1 EXCEPT !.failed_requests = @ + 1]
    IN [m \in DOMAIN states \cup {model} |->
            IF m = model THEN st2 ELSE states[m]]

\* _update_model_state(model_name, success, response_time)
UpdateModelState(states, model, success, rt) ==
    LET st0 == IF model \in DOMAIN states THEN states[model] ELSE NewModelState
        st1 == [st0 EXCEPT !.total_requests = @ + 1, !.last_activity = now]
        st2 == IF success
               THEN LET q == DequeAppend(st1.response_times, rt, ModelWindow)
                    IN [st1 EXCEPT !.successful_requests = @ + 1,
                                   !.response_times = q,
                                   !.avg_response_time =
                                       IF q # <<>> THEN Mean(q) ELSE @]
               ELSE [st1 EXCEPT !.failed_requests = @ + 1]
    IN [m \in DOMAIN states \cup {model} |->
            IF m = model THEN st2 ELSE states[m]]

\* record_request() counting a failed request in failed_requests only
RecordFailureUncounted(success, rt, model) ==
    /\ nreq' = nreq + 1
    /\ IF success
       THEN /\ stats' = [stats EXCEPT !.total_requests = @ + 1,
                                      !.successful_requests = @ + 1]
            /\ response_times' = DequeAppend(response_times, rt, BufferCap)
            /\ UNCHANGED error_counts
       ELSE /\ stats' = [stats EXCEPT !.failed_requests = @ + 1,
                                      !.last_error = now]
            /\ error_counts' = DequeAppend(error_counts, 1, BufferCap)
            /\ UNCHANGED response_times
    /\ model_states' = IF model # NoModel
                       THEN UpdateModelState(model_states, model, success, rt)
                       ELSE model_states
    /\ reqHist' = Logged(reqHist, success, rt, model)
    /\ lastOp' = <<"record_request", "">>
    /\ UNCHANGED <<recorderVars, stepVars, raceVars, alertVars, is_monitoring, monitor_thread, memory_usage, threadVars,
                   trackerVars, now, clock, nticks, stopSignalled,
                   joinTimedOut, endRuns>>

\* record_request(success, response_time, model_name), run as one step
Record(success, rt, model) ==
    /\ nreq' = nreq + 1
    /\ IF success
       THEN /\ stats' = [stats EXCEPT !.total_requests = @ + 1,
                                      !.successful_requests = @ + 1]
            /\ response_times' = DequeAppend(response_times, rt, BufferCap)
            /\ UNCHANGED error_counts
       ELSE /\ stats' = [stats EXCEPT !.total_requests = @ + 1,
                                      !.failed_requests = @ + 1,
                                      !.last_error = now]
            /\ error_counts' = DequeAppend(error_counts, 1, BufferCap)
            /\ UNCHANGED response_times
    /\ model_states' = IF model # NoModel
                       THEN UpdateModelState(model_states, model, success, rt)
                       ELSE model_states
    /\ reqHist' = Logged(reqHist, success, rt, model)
    /\ lastOp' = <<"record_request", "">>
    /\ UNCHANGED <<recorderVars, stepVars, raceVars, alertVars, is_monitoring, monitor_thread, memory_usage, threadVars,
                   trackerVars, now, clock, nticks, stopSignalled,
                   joinTimedOut, endRuns>>

\* record_request(success, response_time, model_name), any arguments
RecordRequest(success, rt, model) ==
    /\ nreq < MaxRequests
    /\ Record(success, rt, model)

\* reset_stats() that also clears is_monitoring
ResetStatsStops ==
    /\ stats' = InitStats(now)
    /\ response_times' = <<>>
    /\ error_counts' = <<>>
    /\ memory_usage' = <<>>
    /\ model_states' = [m \in {} |-> NewModelState]
    /\ reqHist' = NoRequests
    /\ is_monitoring' = FALSE
    /\ lastOp' = <<"reset_stats", "">>
    /\ UNCHANGED <<recorderVars, stepVars, raceVars, alertVars, monitor_thread, threadVars, trackerVars,
                   now, clock, nreq, nticks, stopSignalled, joinTimedOut,
                   endRuns>>

\* reset_stats()
ResetStats ==
    /\ stats' = InitStats(now)
    /\ response_times' = <<>>
    /\ error_counts' = <<>>
    /\ memory_usage' = <<>>
    /\ model_states' = [m \in {} |-> NewModelState]
    /\ reqHist' = NoRequests
    /\ lastOp' = <<"reset_stats", "">>
    /\ UNCHANGED <<recorderVars, stepVars, raceVars, alertVars, is_monitoring, monitor_thread, threadVars, trackerVars,
                   now, clock, nreq, nticks, stopSignalled, joinTimedOut,
                   endRuns>>

\* get_system_status() reporting availability 0 when nothing was recorded
GetSystemStatusZero ==
    LET total == stats.total_requests
    IN [monitoring_active |-> is_monitoring,
        total_requests |-> total,
        availability |-> IF total > 0
                         THEN <<stats.successful_requests, total>> ELSE Zero,
        avg_response_time |-> stats.avg_response_time,
        current_memory_usage |-> stats.current_memory_usage,
        active_models |-> Cardinality({m \in DOMAIN model_states :
                                          model_states[m].status = "active"}),
        last_error |-> stats.last_error]

\* get_system_status(); availability is the fraction <<successful, total>>,
\* and One when nothing was recorded
GetSystemStatus ==
    LET total == stats.total_requests
    IN [monitoring_active |-> is_monitoring,
        total_requests |-> total,
        availability |-> IF total > 0
                         THEN <<stats.successful_requests, total>> ELSE One,
        avg_response_time |-> stats.avg_response_time,
        current_memory_usage |-> stats.current_memory_usage,
        active_models |-> Cardinality({m \in DOMAIN model_states :
                                          model_states[m].status = "active"}),
        last_error |-> stats.last_error]

\* wall-clock time passing (datetime.now())
AdvanceTime ==
    /\ now < MaxNow
    /\ now' = now + 1
    /\ UNCHANGED <<recorderVars, stepVars, raceVars, alertVars, reqHist, monitorVars, threadVars, trackerVars, clock, lastOp, nreq,
                   nticks, stopSignalled, joinTimedOut, endRuns>>

NextRequests ==
    \/ \E success \in BOOLEAN, rt \in Latencies, model \in Models \cup {NoModel} :
           RecordRequest(success, rt, model)
    \/ ResetStats
    \/ AdvanceTime

SpecRequests == Init /\ [][NextRequests]_vars

\* a long run of requests to one model, enough to fill its window of
\* ModelWindow latencies and go MaxOver beyond: the k-th request has latency
\* k, and at most MaxFailures of the requests fail
FeedRequest(success) ==
    /\ nreq < ModelWindow + MaxOver
    /\ ~success => reqHist.total - reqHist.successful < MaxFailures
    /\ Record(success, nreq + 1, WindowModel)

NextWindow == \E success \in BOOLEAN : FeedRequest(success)

SpecWindow == Init /\ [][NextWindow]_vars

\* --------------------------- record_request called from several threads
\* record_request takes no lock, and `x += 1` on a dict entry is a load, an
\* add and a store between which another thread may run.  Each thread t goes
\* through the loads and stores of lines 203-242 in order, keeping the value
\* it loaded in qtmp[t].
RaceUnchanged ==
    UNCHANGED <<is_monitoring, monitor_thread, memory_usage, threadVars,
                trackerVars, now, clock, nreq, nticks, stopSignalled,
                joinTimedOut, endRuns, alertVars, recorderVars, stepVars>>

\* the call, and line 203: load of stats['total_requests']
LoadTotal(t, success, rt, model) ==
    /\ qpc[t] = "idle"
    /\ qbegun < MaxRaceCalls
    /\ qbegun' = qbegun + 1
    /\ qarg' = [qarg EXCEPT ![t] = [success |-> success, rt |-> rt, model |-> model]]
    /\ qtmp' = [qtmp EXCEPT ![t] = stats.total_requests]
    /\ qpc' = [qpc EXCEPT ![t] = "store_total"]
    /\ reqHist' = Logged(reqHist, success, rt, model)
    /\ lastOp' = <<"record_request", "">>
    /\ UNCHANGED <<stats, response_times, error_counts, model_states, qdone>>
    /\ RaceUnchanged

\* line 203: store of stats['total_requests']
StoreTotal(t) ==
    /\ qpc[t] = "store_total"
    /\ stats' = [stats EXCEPT !.total_requests = qtmp[t] + 1]
    /\ qpc' = [qpc EXCEPT ![t] = "load_count"]
    /\ lastOp' = <<"record_request", "">>
    /\ UNCHANGED <<response_times, error_counts, model_states, qarg, qtmp,
                   qbegun, qdone, reqHist>>
    /\ RaceUnchanged

\* line 206 or 209: load of the successful or the failed counter
LoadCount(t) ==
    /\ qpc[t] = "load_count"
    /\ qtmp' = [qtmp EXCEPT ![t] = IF qarg[t].success
                                   THEN stats.successful_requests
                                   ELSE stats.failed_requests]
    /\ qpc' = [qpc EXCEPT ![t] = "store_count"]
    /\ lastOp' = <<"record_request", "">>
    /\ UNCHANGED <<stats, response_times, error_counts, model_states, qarg,
                   qbegun, qdone, reqHist>>
    /\ RaceUnchanged

\* lines 206-211: store of that counter, the append to the buffer, last_error;
\* line 214: the call returns here when no model was named
StoreCount(t) ==
    /\ qpc[t] = "store_count"
    /\ IF qarg[t].success
       THEN /\ stats' = [stats EXCEPT !.successful_requests = qtmp[t] + 1]
            /\ response_times' = DequeAppend(response_times, qarg[t].rt, BufferCap)
            /\ UNCHANGED error_counts
       ELSE /\ stats' = [stats EXCEPT !.failed_requests = qtmp[t] + 1,
                                      !.last_error = now]
            /\ error_counts' = DequeAppend(error_counts, 1, BufferCap)
            /\ UNCHANGED response_times
    /\ IF qarg[t].model # NoModel
       THEN /\ qpc' = [qpc EXCEPT ![t] = "check_model"]
            /\ UNCHANGED qdone
       ELSE /\ qpc' = [qpc EXCEPT ![t] = "idle"]
            /\ qdone' = qdone + 1
    /\ lastOp' = <<"record_request", "">>
    /\ UNCHANGED <<model_states, qarg, qtmp, qbegun, reqHist>>
    /\ RaceUnchanged

\* line 219: `if model_name not in self.model_states`
CheckModel(t) ==
    /\ qpc[t] = "check_model"
    /\ qpc' = [qpc EXCEPT ![t] = IF qarg[t].model \in DOMAIN model_states
                                 THEN "load_model" ELSE "insert_model"]
    /\ lastOp' = <<"record_request", "">>
    /\ UNCHANGED <<stats, response_times, error_counts, model_states, qarg,
                   qtmp, qbegun, qdone, reqHist>>
    /\ RaceUnchanged

\* lines 220-228: the fresh state is stored under the model's name, replacing
\* whatever another thread stored there since the check
InsertModel(t) ==
    /\ qpc[t] = "insert_model"
    /\ model_states' = [m \in DOMAIN model_states \cup {qarg[t].model} |->
                           IF m = qarg[t].model THEN NewModelState
                           ELSE model_states[m]]
    /\ qpc' = [qpc EXCEPT ![t] = "load_model"]
    /\ lastOp' = <<"record_request", "">>
    /\ UNCHANGED <<stats, response_times, error_counts, qarg, qtmp, qbegun,
                   qdone, reqHist>>
    /\ RaceUnchanged

\* lines 230-231: load of state['total_requests']
LoadModel(t) ==
    /\ qpc[t] = "load_model"
    /\ qtmp' = [qtmp EXCEPT ![t] = model_states[qarg[t].model].total_requests]
    /\ qpc' = [qpc EXCEPT ![t] = "store_model"]
    /\ lastOp' = <<"record_request", "">>
    /\ UNCHANGED <<stats, response_times, error_counts, model_states, qarg,
                   qbegun, qdone, reqHist>>
    /\ RaceUnchanged

\* lines 231-242: store of state['total_requests'] and the rest of
\* _update_model_state; the call returns
StoreModel(t) ==
    /\ qpc[t] = "store_model"
    /\ LET a == qarg[t]
           loaded == [model_states EXCEPT ![a.model].total_requests = qtmp[t]]
       IN model_states' = UpdateModelState(loaded, a.model, a.success, a.rt)
    /\ qpc' = [qpc EXCEPT ![t] = "idle"]
    /\ qdone' = qdone + 1
    /\ lastOp' = <<"record_request", "">>
    /\ UNCHANGED <<stats, response_times, error_counts, qarg, qtmp, qbegun,
                   reqHist>>
    /\ RaceUnchanged

NextRecordThreads ==
    \E t \in Requesters :
        \/ \E success \in BOOLEAN, rt \in Latencies, model \in Models \cup {NoModel} :
               LoadTotal(t, success, rt, model)
        \/ StoreTotal(t)
        \/ LoadCount(t)
        \/ StoreCount(t)
        \/ CheckModel(t)
        \/ InsertModel(t)
        \/ LoadModel(t)
        \/ StoreModel(t)

SpecRecordThreads == Init /\ [][NextRecordThreads]_vars

\* ------------------------------------------------ the sampling loop thread
\* _check_model_health() comparing with >= instead of >
CheckModelHealthNonStrict(states) ==
    [m \in DOMAIN states |->
        IF states[m].last_activity # None
        THEN [states[m] EXCEPT !.status =
                 IF now - states[m].last_activity >= InactiveMinutes
                 THEN "inactive" ELSE "active"]
        ELSE states[m]]

\* _check_model_health(): the status of every model from its last activity
CheckModelHealth(states) ==
    [m \in DOMAIN states |->
        IF states[m].last_activity # None
        THEN [states[m] EXCEPT !.status =
                 IF now - states[m].last_activity > InactiveMinutes
                 THEN "inactive" ELSE "active"]
        ELSE states[m]]

\* _update_stats(system_metrics)
UpdateStats(st, mem) ==
    [st EXCEPT !.current_memory_usage = mem,
               !.avg_response_time =
                   IF response_times # <<>> THEN Mean(response_times) ELSE @]

\* `while self.is_monitoring:` evaluated by loop thread l
LoopCheck(l) ==
    /\ lpc[l] = "check"
    /\ IF is_monitoring
       THEN /\ nticks < MaxTicks
            /\ nticks' = nticks + 1
            /\ lpc' = [lpc EXCEPT ![l] = "tick"]
            /\ lastOp' = <<"tick_begin", "">>
       ELSE /\ lpc' = [lpc EXCEPT ![l] = "done"]
            /\ lastOp' = <<"loop_exit", "">>
            /\ UNCHANGED nticks
    /\ UNCHANGED <<recorderVars, stepVars, raceVars, alertVars, reqHist, monitorVars, cpc, joinTarget, trackerVars, now, clock,
                   nreq, stopSignalled, joinTimedOut, endRuns>>

\* _check_alerts() holding back memory_high when the evaluation before
\* raised it
CheckAlertsDebounced(mem, st) ==
    (IF mem > MemoryLimit
        /\ ~(alertLog # <<>>
             /\ \E k \in 1..Len(alertLog[Len(alertLog)].alerts) :
                    alertLog[Len(alertLog)].alerts[k] = "memory_high")
     THEN <<"memory_high">> ELSE <<>>)
    \o (IF response_times # <<>>
           /\ st.avg_response_time[1] > ResponseTimeLimit * st.avg_response_time[2]
        THEN <<"response_time_high">> ELSE <<>>)
    \o (IF st.total_requests > 0
           /\ st.failed_requests * ErrorRateInverse > st.total_requests
        THEN <<"error_rate_high">> ELSE <<>>)

\* _check_alerts(): the list `alerts` it builds, in order; st is the stats
\* just updated by _update_stats
CheckAlerts(mem, st) ==
    (IF mem > MemoryLimit THEN <<"memory_high">> ELSE <<>>)
    \o (IF response_times # <<>>
           /\ st.avg_response_time[1] > ResponseTimeLimit * st.avg_response_time[2]
        THEN <<"response_time_high">> ELSE <<>>)
    \o (IF st.total_requests > 0
           /\ st.failed_requests * ErrorRateInverse > st.total_requests
        THEN <<"error_rate_high">> ELSE <<>>)

\* the first callback from which an exception leaves _trigger_alert, 0 if none:
\* `except Exception` catches what derives from Exception and nothing else
FirstEscape(cbs) ==
    IF \E i \in 1..Len(cbs) : cbs[i] = "BaseException"
    THEN CHOOSE i \in 1..Len(cbs) :
             /\ cbs[i] = "BaseException"
             /\ \A k \in 1..(i - 1) : cbs[k] # "BaseException"
    ELSE 0

\* _trigger_alert without the try around the callback: the first callback
\* that raises ends the delivery
TriggerAlertUncaught(alert, cbs) ==
    LET bad == {i \in 1..Len(cbs) : cbs[i] # "ok"}
        n == IF bad = {} THEN Len(cbs)
             ELSE CHOOSE i \in bad : \A k \in bad : i <= k
    IN [calls |-> [i \in 1..n |-> <<alert, i>>], escaped |-> bad # {}]

\* _trigger_alert(alert): the callbacks called, in order, as <<alert, position
\* in alert_callbacks>>, and whether an exception left the function
TriggerAlert(alert, cbs) ==
    LET esc == FirstEscape(cbs)
        n == IF esc = 0 THEN Len(cbs) ELSE esc
    IN [calls |-> [i \in 1..n |-> <<alert, i>>], escaped |-> esc # 0]

\* `for alert in alerts: self._trigger_alert(alert)`: the alerts triggered
\* and the calls made, until an exception leaves
RECURSIVE TriggerAll(_, _)
TriggerAll(alerts, cbs) ==
    IF alerts = <<>>
    THEN [alerts |-> <<>>, calls |-> <<>>, escaped |-> FALSE]
    ELSE LET one == TriggerAlert(Head(alerts), cbs)
             rest == IF one.escaped
                     THEN [alerts |-> <<>>, calls |-> <<>>, escaped |-> TRUE]
                     ELSE TriggerAll(Tail(alerts), cbs)
         IN [alerts |-> <<Head(alerts)>> \o rest.alerts,
             calls |-> one.calls \o rest.calls,
             escaped |-> rest.escaped]

\* the body of one iteration (sample, stats, alerts, health) and the sleep;
\* an exception that `except Exception` (line 109) does not catch ends the
\* thread
LoopTick(l, mem) ==
    /\ lpc[l] = "tick"
    /\ memory_usage' = DequeAppend(memory_usage, mem, BufferCap)
    /\ LET st == UpdateStats(stats, mem)
           found == CheckAlerts(mem, st)
           out == TriggerAll(found, alert_callbacks)
       IN /\ stats' = st
          /\ alertLog' = Append(alertLog, [mem |-> mem, found |-> found,
                                           alerts |-> out.alerts,
                                           calls |-> out.calls])
          /\ IF out.escaped
             THEN /\ lpc' = [lpc EXCEPT ![l] = "done"]
                  /\ UNCHANGED model_states
             ELSE /\ lpc' = [lpc EXCEPT ![l] = "check"]
                  /\ model_states' = CheckModelHealth(model_states)
    /\ lastOp' = <<"tick_end", "">>
    /\ UNCHANGED alert_callbacks
    /\ UNCHANGED <<recorderVars, stepVars, raceVars, reqHist, is_monitoring, monitor_thread, response_times, error_counts,
                   cpc, joinTarget, trackerVars, now, clock, nreq, nticks,
                   stopSignalled, joinTimedOut, endRuns>>

\* register_alert_callback(callback); kind is how the callback behaves when
\* it is called
RegisterAlertCallback(kind) ==
    /\ Len(alert_callbacks) < MaxCallbacks
    /\ alert_callbacks' = Append(alert_callbacks, kind)
    /\ lastOp' = <<"register_alert_callback", "">>
    /\ UNCHANGED <<monitorVars, threadVars, trackerVars, now, clock, nreq,
                   nticks, stopSignalled, joinTimedOut, endRuns, alertLog,
                   reqHist, raceVars, recorderVars, stepVars>>

\* ------------------------------------------------------ start_monitoring()
\* a caller may begin a call: always when calls interleave, and only when no
\* other call is in progress when calls come one at a time
MayCall(c, seq) == cpc[c] = "idle" /\ (seq => \A d \in Callers : cpc[d] = "idle")

\* line 73 with the guard dropped: start always proceeds
StartCheckAlways(c, seq) ==
    /\ MayCall(c, seq)
    /\ \E l \in Loops : lpc[l] = "none"
    /\ cpc' = [cpc EXCEPT ![c] = "start_set"]
    /\ lastOp' = <<"start_call", c>>
    /\ UNCHANGED <<recorderVars, stepVars, raceVars, alertVars, reqHist, monitorVars, lpc, joinTarget, trackerVars, now, clock,
                   nreq, nticks, stopSignalled, joinTimedOut, endRuns>>

\* lines 73-75: `if self.is_monitoring: warning; return`
StartCheck(c, seq) ==
    /\ MayCall(c, seq)
    /\ IF is_monitoring
       THEN /\ lastOp' = <<"start_noop", c>>
            /\ UNCHANGED cpc
       ELSE /\ \E l \in Loops : lpc[l] = "none"
            /\ cpc' = [cpc EXCEPT ![c] = "start_set"]
            /\ lastOp' = <<"start_call", c>>
    /\ UNCHANGED <<recorderVars, stepVars, raceVars, alertVars, reqHist, monitorVars, lpc, joinTarget, trackerVars, now, clock,
                   nreq, nticks, stopSignalled, joinTimedOut, endRuns>>

\* line 77: self.is_monitoring = True
StartSet(c) ==
    /\ cpc[c] = "start_set"
    /\ is_monitoring' = TRUE
    /\ cpc' = [cpc EXCEPT ![c] = "start_new"]
    /\ lastOp' = <<"start_set", c>>
    /\ UNCHANGED <<recorderVars, stepVars, raceVars, alertVars, reqHist, monitor_thread, stats, response_times, error_counts,
                   memory_usage, model_states, lpc, joinTarget, trackerVars,
                   now, clock, nreq, nticks, stopSignalled, joinTimedOut,
                   endRuns>>

\* line 78: self.monitor_thread = threading.Thread(target=self._monitor_loop)
StartNew(c) ==
    /\ cpc[c] = "start_new"
    /\ \E l \in Loops :
          /\ lpc[l] = "none"
          /\ \A k \in Loops : k < l => lpc[k] # "none"
          /\ monitor_thread' = l
          /\ lpc' = [lpc EXCEPT ![l] = "created"]
    /\ cpc' = [cpc EXCEPT ![c] = "start_run"]
    /\ lastOp' = <<"start_new", c>>
    /\ UNCHANGED <<recorderVars, stepVars, raceVars, alertVars, reqHist, is_monitoring, stats, response_times, error_counts,
                   memory_usage, model_states, joinTarget, trackerVars, now,
                   clock, nreq, nticks, stopSignalled, joinTimedOut, endRuns>>

\* line 79: self.monitor_thread.start(); a thread started twice raises
StartRun(c) ==
    /\ cpc[c] = "start_run"
    /\ IF lpc[monitor_thread] = "created"
       THEN /\ lpc' = [lpc EXCEPT ![monitor_thread] = "check"]
            /\ lastOp' = <<"start_return", c>>
       ELSE /\ lastOp' = <<"start_raise", c>>
            /\ UNCHANGED lpc
    /\ cpc' = [cpc EXCEPT ![c] = "idle"]
    /\ UNCHANGED <<recorderVars, stepVars, raceVars, alertVars, reqHist, monitorVars, joinTarget, trackerVars, now, clock, nreq,
                   nticks, stopSignalled, joinTimedOut, endRuns>>

\* ------------------------------------------------------- stop_monitoring()
\* line 84 with the guard dropped: stop always proceeds
StopCheckAlways(c, seq) ==
    /\ MayCall(c, seq)
    /\ cpc' = [cpc EXCEPT ![c] = "stop_set"]
    /\ lastOp' = <<"stop_call", c>>
    /\ UNCHANGED <<recorderVars, stepVars, raceVars, alertVars, reqHist, monitorVars, lpc, joinTarget, trackerVars, now, clock,
                   nreq, nticks, stopSignalled, joinTimedOut, endRuns>>

\* lines 84-85: `if not self.is_monitoring: return`
StopCheck(c, seq) ==
    /\ MayCall(c, seq)
    /\ IF is_monitoring
       THEN /\ cpc' = [cpc EXCEPT ![c] = "stop_set"]
            /\ lastOp' = <<"stop_call", c>>
       ELSE /\ lastOp' = <<"stop_noop", c>>
            /\ UNCHANGED cpc
    /\ UNCHANGED <<recorderVars, stepVars, raceVars, alertVars, reqHist, monitorVars, lpc, joinTarget, trackerVars, now, clock,
                   nreq, nticks, stopSignalled, joinTimedOut, endRuns>>

\* line 87: self.is_monitoring = False
StopSet(c) ==
    /\ cpc[c] = "stop_set"
    /\ is_monitoring' = FALSE
    /\ stopSignalled' = [l \in Loops |->
                            stopSignalled[l] \/ lpc[l] \in {"check", "tick"}]
    /\ cpc' = [cpc EXCEPT ![c] = "stop_join"]
    /\ lastOp' = <<"stop_set", c>>
    /\ UNCHANGED <<recorderVars, stepVars, raceVars, alertVars, reqHist, monitor_thread, stats, response_times, error_counts,
                   memory_usage, model_states, lpc, joinTarget, trackerVars,
                   now, clock, nreq, nticks, joinTimedOut, endRuns>>

\* lines 88-89: `if self.monitor_thread: self.monitor_thread.join(timeout=5)`
\* no thread: return; a thread not yet started: join raises
StopJoin(c) ==
    /\ cpc[c] = "stop_join"
    /\ IF monitor_thread = 0
       THEN /\ cpc' = [cpc EXCEPT ![c] = "idle"]
            /\ lastOp' = <<"stop_return", c>>
            /\ joinTimedOut' = FALSE
            /\ UNCHANGED joinTarget
       ELSE IF lpc[monitor_thread] = "created"
       THEN /\ cpc' = [cpc EXCEPT ![c] = "idle"]
            /\ lastOp' = <<"stop_raise", c>>
            /\ UNCHANGED <<joinTarget, joinTimedOut>>
       ELSE /\ cpc' = [cpc EXCEPT ![c] = "stop_wait"]
            /\ joinTarget' = [joinTarget EXCEPT ![c] = monitor_thread]
            /\ lastOp' = <<"stop_join", c>>
            /\ UNCHANGED joinTimedOut
    /\ UNCHANGED <<recorderVars, stepVars, raceVars, alertVars, reqHist, monitorVars, lpc, trackerVars, now, clock, nreq, nticks,
                   stopSignalled, endRuns>>

\* join returns: the thread has exited, or the 5 seconds have passed; a
\* thread that is between ticks leaves within one interval (1 s) of the flag
\* being cleared, so only a tick in progress can outlast the timeout
StopJoined(c) ==
    /\ cpc[c] = "stop_wait"
    /\ lpc[joinTarget[c]] \in {"done", "tick"}
    /\ joinTimedOut' = (lpc[joinTarget[c]] # "done")
    /\ cpc' = [cpc EXCEPT ![c] = "idle"]
    /\ lastOp' = <<"stop_return", c>>
    /\ UNCHANGED <<recorderVars, stepVars, raceVars, alertVars, reqHist, monitorVars, lpc, joinTarget, trackerVars, now, clock,
                   nreq, nticks, stopSignalled, endRuns>>

Lifecycle(seq) ==
    \/ \E c \in Callers : StartCheck(c, seq)
    \/ \E c \in Callers : StartSet(c)
    \/ \E c \in Callers : StartNew(c)
    \/ \E c \in Callers : StartRun(c)
    \/ \E c \in Callers : StopCheck(c, seq)
    \/ \E c \in Callers : StopSet(c)
    \/ \E c \in Callers : StopJoin(c)
    \/ \E c \in Callers : StopJoined(c)
    \/ \E l \in Loops : LoopCheck(l)
    \/ \E l \in Loops, mem \in MemSamples : LoopTick(l, mem)

\* calls from several threads, interleaved
NextLifecycle == Lifecycle(FALSE)
SpecLifecycle == Init /\ [][NextLifecycle]_vars

\* calls one at a time, the loop threads running beside them
NextLifecycleSeq == Lifecycle(TRUE)
SpecLifecycleSeq == Init /\ [][NextLifecycleSeq]_vars

\* start_monitoring called one call at a time, and the loop it starts
Sampling ==
    \/ \E c \in Callers : StartCheck(c, TRUE)
    \/ \E c \in Callers : StartSet(c)
    \/ \E c \in Callers : StartNew(c)
    \/ \E c \in Callers : StartRun(c)
    \/ \E l \in Loops : LoopCheck(l)
    \/ \E l \in Loops, mem \in MemSamples : LoopTick(l, mem)

\* the loop sampling while requests without a model name are recorded, some
\* of them slower than the response-time threshold
NextAlerts ==
    \/ Sampling
    \/ \E success \in BOOLEAN, rt \in SlowLatencies :
           RecordRequest(success, rt, NoModel)

SpecAlerts == Init /\ [][NextAlerts]_vars

\* the loop sampling while callbacks are registered
NextCallbacks ==
    \/ Sampling
    \/ \E kind \in Outcomes : RegisterAlertCallback(kind)

SpecCallbacks == Init /\ [][NextCallbacks]_vars

\* minutes passing while the loop sleeps or nobody calls
Wait(d) ==
    /\ now + d <= InactiveMinutes + MaxLate
    /\ now' = now + d
    /\ UNCHANGED <<monitorVars, threadVars, trackerVars, clock, histVars,
                   alertVars, reqHist, raceVars, recorderVars, stepVars>>

\* the loop sampling with memory below the threshold, over minutes, while
\* requests are recorded: successful ones for one model, failed ones for the
\* other
NextHealth ==
    \/ \E c \in Callers : StartCheck(c, TRUE)
    \/ \E c \in Callers : StartSet(c)
    \/ \E c \in Callers : StartNew(c)
    \/ \E c \in Callers : StartRun(c)
    \/ \E l \in Loops : LoopCheck(l)
    \/ \E l \in Loops : LoopTick(l, LowMemory)
    \/ \E d \in Waits : Wait(d)
    \/ \E r \in HealthRequests : RecordRequest(r[1], FastLatency, r[2])

SpecHealth == Init /\ [][NextHealth]_vars

\* the loop sampling while requests are recorded, a callback is registered
\* and the statistics are reset
NextReset ==
    \/ Sampling
    \/ RecordRequest(TRUE, FastLatency, WindowModel)
    \/ RegisterAlertCallback("ok")
    \/ ResetStats

SpecReset == Init /\ [][NextReset]_vars

\* lines 95-104 of one iteration: sample, stats and alerts as in LoopTick,
\* then line 165: the iterator over self.model_states.items() is created,
\* remembering the size of the dict
TickBegin(l, mem) ==
    /\ lpc[l] = "tick"
    /\ memory_usage' = DequeAppend(memory_usage, mem, BufferCap)
    /\ LET st == UpdateStats(stats, mem)
           found == CheckAlerts(mem, st)
           out == TriggerAll(found, alert_callbacks)
       IN /\ stats' = st
          /\ alertLog' = Append(alertLog, [mem |-> mem, found |-> found,
                                           alerts |-> out.alerts,
                                           calls |-> out.calls])
          /\ IF out.escaped
             THEN /\ lpc' = [lpc EXCEPT ![l] = "done"]
                  /\ UNCHANGED healthIter
             ELSE /\ lpc' = [lpc EXCEPT ![l] = "health"]
                  /\ healthIter' =
                         [healthIter EXCEPT ![l] =
                             [began |-> DOMAIN model_states,
                              left |-> DOMAIN model_states,
                              size |-> Cardinality(DOMAIN model_states)]]
    /\ lastOp' = <<"health_begin", "">>
    /\ UNCHANGED <<model_states, alert_callbacks, is_monitoring,
                   monitor_thread, response_times, error_counts, cpc,
                   joinTarget, trackerVars, now, clock, nreq, nticks,
                   stopSignalled, joinTimedOut, endRuns, reqHist, raceVars,
                   recorderVars, nops>>

\* lines 165-174, one round of the for loop: the iterator raises
\* RuntimeError when the dict has changed size since it was created, and the
\* `except Exception` of line 109 ends the iteration of the loop; it stops
\* when no item is left; otherwise the next item is classified. The model
\* keeps no insertion order: any item not yet visited may be the next.
HealthVisit(l) ==
    /\ lpc[l] = "health"
    /\ IF Cardinality(DOMAIN model_states) # healthIter[l].size
       THEN /\ lpc' = [lpc EXCEPT ![l] = "check"]
            /\ lastOp' = <<"health_error", "">>
            /\ UNCHANGED <<model_states, healthIter>>
       ELSE IF healthIter[l].left = {}
       THEN /\ lpc' = [lpc EXCEPT ![l] = "check"]
            /\ lastOp' = <<"tick_end", "">>
            /\ UNCHANGED <<model_states, healthIter>>
       ELSE \E m \in healthIter[l].left :
            /\ model_states' =
                   [model_states EXCEPT ![m] = CheckModelHealth(model_states)[m]]
            /\ healthIter' = [healthIter EXCEPT ![l].left = @ \ {m}]
            /\ lastOp' = <<"health_visit", "">>
            /\ UNCHANGED lpc
    /\ UNCHANGED <<is_monitoring, monitor_thread, stats, response_times,
                   error_counts, memory_usage, cpc, joinTarget, trackerVars,
                   now, clock, nreq, nticks, stopSignalled, joinTimedOut,
                   endRuns, alertVars, reqHist, raceVars, recorderVars, nops>>

\* the sampling loop step by step while other threads call
\* record_request(True, ., model)
NextHealthThreads ==
    \/ \E c \in Callers : StartCheck(c, TRUE)
    \/ \E c \in Callers : StartSet(c)
    \/ \E c \in Callers : StartNew(c)
    \/ \E c \in Callers : StartRun(c)
    \/ \E l \in Loops : LoopCheck(l)
    \/ \E l \in Loops : TickBegin(l, LowMemory)
    \/ \E l \in Loops : HealthVisit(l)
    \/ \E t \in Requesters, model \in Models :
           LoadTotal(t, TRUE, FastLatency, model)
    \/ \E t \in Requesters : StoreTotal(t)
    \/ \E t \in Requesters : LoadCount(t)
    \/ \E t \in Requesters : StoreCount(t)
    \/ \E t \in Requesters : CheckModel(t)
    \/ \E t \in Requesters : InsertModel(t)
    \/ \E t \in Requesters : LoadModel(t)
    \/ \E t \in Requesters : StoreModel(t)

SpecHealthThreads == Init /\ [][NextHealthThreads]_vars

\* ===================================================== PerformanceTracker
\* Scope s is one invocation of track_operation; opstats[s] is its
\* PerformanceStats object, which active_operations and completed_operations
\* hold by reference.  time.time() is clock, in milliseconds; datetime.now()
\* is now, in minutes, so the scopes of one run start and end at the same now.

\* time.time() advancing by a millisecond
ClockTick ==
    /\ clock < MaxClock
    /\ clock' = clock + 1
    /\ UNCHANGED <<recorderVars, stepVars, raceVars, alertVars, reqHist, monitorVars, threadVars, trackerVars, now, lastOp, nreq,
                   nticks, stopSignalled, joinTimedOut, endRuns>>

\* line 58: operation_id = f"{operation_name}_{int(time.time() * 1000)}"
OperationId(name, t) == <<name, t>>

\* track_operation(name) entered by scope s: the id is computed (line 58)
TrackOperation(s, name) ==
    /\ spc[s] = "new"
    /\ \A r \in Scopes : r < s => spc[r] # "new"
    /\ opName' = [opName EXCEPT ![s] = name]
    /\ opId' = [opId EXCEPT ![s] = OperationId(name, clock)]
    /\ spc' = [spc EXCEPT ![s] = "begin"]
    /\ lastOp' = <<"track_operation", "">>
    /\ UNCHANGED <<recorderVars, stepVars, raceVars, alertVars, reqHist, monitorVars, threadVars, active_operations,
                   completed_operations, operation_history, opstats, outcome,
                   raised, now, clock, nreq, nticks, stopSignalled,
                   joinTimedOut, endRuns>>

\* lines 61-74: the record is created and stored under the id (under the
\* lock), then the body runs
BeginInsert(s) ==
    /\ spc[s] = "begin"
    /\ opstats' = [opstats EXCEPT ![s].start_time = now]
    /\ active_operations' =
           [i \in DOMAIN active_operations \cup {opId[s]} |->
               IF i = opId[s] THEN s ELSE active_operations[i]]
    /\ spc' = [spc EXCEPT ![s] = "body"]
    /\ lastOp' = <<"track_operation", "">>
    /\ UNCHANGED <<recorderVars, stepVars, raceVars, alertVars, reqHist, monitorVars, threadVars, completed_operations,
                   operation_history, opName, opId, outcome, raised, now,
                   clock, nreq, nticks, stopSignalled, joinTimedOut, endRuns>>

\* lines 76-78 left out: no 'error' entry is added
ExceptClauseSkip(st, kind) == st

\* lines 76-78: `except Exception as e:` adds 'error' to the metadata;
\* an exception that is not an Exception passes the clause by
ExceptClause(st, kind) ==
    IF kind = "Exception" THEN [st EXCEPT !.error = TRUE] ELSE st

\* PerformanceStats.finish(): end_time and duration
FinishStats(st) ==
    [st EXCEPT !.end_time = now, !.duration = now - st.start_time]

\* line 87 left out: the entry stays in the active set
PopKeep(act, id) == act

\* line 87: self.active_operations.pop(operation_id, None)
Pop(act, id) == [i \in DOMAIN act \ {id} |-> act[i]]

\* lines 73-92: the body of the with statement ends, normally or by raising:
\* the except clause, stats.finish(), and under the lock pop, append and
\* keep the last 100
EndScope(s, kind) ==
    /\ spc[s] = "body"
    /\ outcome' = [outcome EXCEPT ![s] = kind]
    /\ opstats' = [opstats EXCEPT ![s] = FinishStats(ExceptClause(@, kind))]
    /\ active_operations' = Pop(active_operations, opId[s])
    /\ completed_operations' =
           LastN(Append(completed_operations, s), CompletedCap)
    /\ endRuns' = [endRuns EXCEPT ![s] = @ + 1]
    /\ spc' = [spc EXCEPT ![s] = "history"]
    /\ lastOp' = <<"track_operation", "">>
    /\ UNCHANGED <<recorderVars, stepVars, raceVars, alertVars, reqHist, monitorVars, threadVars, operation_history, opName, opId,
                   raised, now, clock, nreq, nticks, stopSignalled,
                   joinTimedOut>>

\* _add_to_history(operation, duration)
AddToHistory(hist, name, d) ==
    LET old == IF name \in DOMAIN hist THEN hist[name] ELSE <<>>
    IN [n \in DOMAIN hist \cup {name} |->
           IF n = name THEN LastN(Append(old, d), HistoryCap) ELSE hist[n]]

\* lines 94-101, then the generator ends and __exit__ lets the exception,
\* if any, go on to the caller
EndHistory(s) ==
    /\ spc[s] = "history"
    /\ operation_history' =
           AddToHistory(operation_history, opName[s], opstats[s].duration)
    /\ raised' = [raised EXCEPT ![s] = (outcome[s] # "ok")]
    /\ spc' = [spc EXCEPT ![s] = "done"]
    /\ lastOp' = <<"track_operation", "">>
    /\ UNCHANGED <<recorderVars, stepVars, raceVars, alertVars, reqHist, monitorVars, threadVars, active_operations,
                   completed_operations, opstats, opName, opId, outcome, now,
                   clock, nreq, nticks, stopSignalled, joinTimedOut, endRuns>>

\* __exit__ on a finished generator that runs the end bookkeeping again
ExitAgainRerun(s) ==
    /\ spc[s] = "done"
    /\ active_operations' = Pop(active_operations, opId[s])
    /\ completed_operations' =
           LastN(Append(completed_operations, s), CompletedCap)
    /\ endRuns' = [endRuns EXCEPT ![s] = @ + 1]
    /\ lastOp' = <<"exit_again", "">>
    /\ UNCHANGED <<recorderVars, stepVars, raceVars, alertVars, reqHist, monitorVars, threadVars, operation_history, opstats, spc,
                   opName, opId, outcome, raised, now, clock, nreq, nticks,
                   stopSignalled, joinTimedOut>>

\* line 54, @contextmanager: __exit__ called again on the context manager of
\* a scope that has ended finds the generator finished and does nothing
ExitAgain(s) ==
    /\ spc[s] = "done"
    /\ lastOp' = <<"exit_again", "">>
    /\ UNCHANGED <<recorderVars, stepVars, raceVars, alertVars, reqHist, monitorVars, threadVars, trackerVars, now, clock, nreq,
                   nticks, stopSignalled, joinTimedOut, endRuns>>

\* clear_history()
ClearHistory ==
    /\ operation_history' = [n \in {} |-> <<>>]
    /\ completed_operations' = <<>>
    /\ lastOp' = <<"clear_history", "">>
    /\ UNCHANGED <<recorderVars, stepVars, raceVars, alertVars, reqHist, monitorVars, threadVars, active_operations, opstats, spc,
                   opName, opId, outcome, raised, now, clock, nreq, nticks,
                   stopSignalled, joinTimedOut, endRuns>>

NextTracker ==
    \/ ClockTick
    \/ \E s \in Scopes, name \in OpNames : TrackOperation(s, name)
    \/ \E s \in Scopes : BeginInsert(s)
    \/ \E s \in Scopes, kind \in Outcomes : EndScope(s, kind)
    \/ \E s \in Scopes : EndHistory(s)
    \/ \E s \in Scopes : ExitAgain(s)
    \/ ClearHistory

SpecTracker == Init /\ [][NextTracker]_vars

\* the PerformanceStats object of the k-th operation run in sequence, apart
\* from the objects of the scopes
ObjectOf(k) == MaxOps + k

\* a whole track_operation(name) run by one thread while no other operation
\* is in progress: lines 58-101 from the id to the history, its record
\* inserted and popped again
RunOperation(name) ==
    /\ nops < CompletedCap + MaxOver
    /\ \A s \in Scopes : spc[s] = "new"
    /\ nops' = nops + 1
    /\ active_operations' =
           Pop([i \in DOMAIN active_operations \cup {OperationId(name, clock)} |->
                    IF i = OperationId(name, clock) THEN ObjectOf(nops + 1)
                    ELSE active_operations[i]],
               OperationId(name, clock))
    /\ completed_operations' =
           LastN(Append(completed_operations, ObjectOf(nops + 1)), CompletedCap)
    /\ operation_history' = AddToHistory(operation_history, name, now - now)
    /\ lastOp' = <<"track_operation", "">>
    /\ UNCHANGED <<monitorVars, threadVars, opstats, spc, opName, opId,
                   outcome, raised, now, clock, nreq, nticks, stopSignalled,
                   joinTimedOut, endRuns, alertVars, reqHist, raceVars,
                   recorderVars, healthIter>>

NextCompleted == \E name \in OpNames : RunOperation(name)

\* more operations, one after another, than the completed list holds
SpecCompleted == Init /\ [][NextCompleted]_vars

\* _add_to_history runs after the lock is released (line 95): its test, its
\* insert and its append are steps between which other threads run
\* line 199: `if operation not in self.operation_history`
HistoryCheck(s) ==
    /\ spc[s] = "history"
    /\ spc' = [spc EXCEPT ![s] = IF opName[s] \in DOMAIN operation_history
                                 THEN "history_append" ELSE "history_insert"]
    /\ lastOp' = <<"track_operation", "">>
    /\ UNCHANGED <<monitorVars, threadVars, active_operations,
                   completed_operations, operation_history, opstats, opName,
                   opId, outcome, raised, now, clock, nreq, nticks,
                   stopSignalled, joinTimedOut, endRuns, alertVars, reqHist,
                   raceVars, recorderVars, stepVars>>

\* line 200: self.operation_history[operation] = []
HistoryInsert(s) ==
    /\ spc[s] = "history_insert"
    /\ operation_history' =
           [n \in DOMAIN operation_history \cup {opName[s]} |->
               IF n = opName[s] THEN <<>> ELSE operation_history[n]]
    /\ spc' = [spc EXCEPT ![s] = "history_append"]
    /\ lastOp' = <<"track_operation", "">>
    /\ UNCHANGED <<monitorVars, threadVars, active_operations,
                   completed_operations, opstats, opName, opId, outcome,
                   raised, now, clock, nreq, nticks, stopSignalled,
                   joinTimedOut, endRuns, alertVars, reqHist, raceVars,
                   recorderVars, stepVars>>

\* lines 202-206: the append and the cut to the last 50; then lines 97-101
\* and the end of the generator
HistoryAppend(s) ==
    /\ spc[s] = "history_append"
    /\ operation_history' =
           AddToHistory(operation_history, opName[s], opstats[s].duration)
    /\ raised' = [raised EXCEPT ![s] = (outcome[s] # "ok")]
    /\ spc' = [spc EXCEPT ![s] = "done"]
    /\ lastOp' = <<"track_operation", "">>
    /\ UNCHANGED <<monitorVars, threadVars, active_operations,
                   completed_operations, opstats, opName, opId, outcome, now,
                   clock, nreq, nticks, stopSignalled, joinTimedOut, endRuns,
                   alertVars, reqHist, raceVars, recorderVars, stepVars>>

\* get_performance_summary(): count and last_duration of every operation
\* with a non-empty history
GetPerformanceSummary ==
    [n \in {x \in DOMAIN operation_history : operation_history[x] # <<>>} |->
        [count |-> Len(operation_history[n]),
         last_duration |-> operation_history[n][Len(operation_history[n])]]]

\* track_operation scopes in several threads, _add_to_history step by step
NextHistoryThreads ==
    \/ ClockTick
    \/ \E s \in Scopes, name \in OpNames : TrackOperation(s, name)
    \/ \E s \in Scopes : BeginInsert(s)
    \/ \E s \in Scopes, kind \in Outcomes : EndScope(s, kind)
    \/ \E s \in Scopes : HistoryCheck(s)
    \/ \E s \in Scopes : HistoryInsert(s)
    \/ \E s \in Scopes : HistoryAppend(s)

SpecHistoryThreads == Init /\ [][NextHistoryThreads]_vars

\* ====================================================== ExperimentManager
\* the three outcomes of __init__: mlflow missing or its set-up failed
\* (unavailable, no experiment), the experiment could not be obtained, or the
\* experiment id was obtained
InitRecorder ==
    /\ InitMonitor
    /\ \E avail \in BOOLEAN, exp \in {None, ExperimentId} :
           /\ (~avail => exp = None)
           /\ InitManager(avail, exp)

\* the runs of the tracking service that are not ended
OpenRuns(runs) == {r \in DOMAIN runs : runs[r].status = "RUNNING"}

\* the service creates a run under the next unused id
FreshRun(runs) == Cardinality(DOMAIN runs) + 1
CanCreate(runs) == Cardinality(DOMAIN runs) < MaxRuns
Created(runs) ==
    [r \in DOMAIN runs \cup {FreshRun(runs)} |->
        IF r \in DOMAIN runs THEN runs[r] ELSE NewRun]

\* a thread may begin a call of the recorder: any idle thread when calls
\* interleave, and only when no call is in progress when they come one at a time
RecMayCall(t, seq) ==
    /\ rpc[t] = "idle"
    /\ nrec < MaxRecCalls
    /\ seq => \A u \in RecThreads : rpc[u] = "idle"

\* a method returns value v to thread t without reaching the service
RecSkip(t, method, v) ==
    /\ rret' = [rret EXCEPT ![t] = <<method, v>>]
    /\ lastOp' = <<method \o "_skip", t>>
    /\ UNCHANGED <<rpc, svcCalls>>

\* thread t enters the try block of a method and calls the service
RecEnter(t, method) ==
    /\ rpc' = [rpc EXCEPT ![t] = method]
    /\ svcCalls' = svcCalls + 1
    /\ lastOp' = <<method \o "_call", t>>
    /\ UNCHANGED rret

\* start_run(): the guard, up to the call of mlflow.start_run
StartRunCall(t, seq) ==
    /\ RecMayCall(t, seq)
    /\ nrec' = nrec + 1
    /\ IF ~mlflow_available \/ experiment_id = None
       THEN RecSkip(t, "start_run", None)
       ELSE RecEnter(t, "start_run")
    /\ UNCHANGED <<monitorVars, threadVars, trackerVars, now, clock, nreq,
                   nticks, stopSignalled, joinTimedOut, endRuns, alertVars,
                   reqHist, raceVars, stepVars, mlflow_available, experiment_id,
                   current_run, svcStack, svcRuns>>

\* start_run() calling mlflow.start_run(nested=True): a run is created under
\* the run that is active
StartRunReturnNested(t, fails) ==
    /\ rpc[t] = "start_run"
    /\ IF fails \/ ~CanCreate(svcRuns)
       THEN /\ rret' = [rret EXCEPT ![t] = <<"start_run", None>>]
            /\ UNCHANGED <<current_run, svcStack, svcRuns>>
       ELSE /\ svcRuns' = Created(svcRuns)
            /\ svcStack' = Append(svcStack, FreshRun(svcRuns))
            /\ current_run' = FreshRun(svcRuns)
            /\ rret' = [rret EXCEPT ![t] = <<"start_run", FreshRun(svcRuns)>>]
    /\ rpc' = [rpc EXCEPT ![t] = "idle"]
    /\ lastOp' = <<"start_run_return", t>>
    /\ UNCHANGED <<monitorVars, threadVars, trackerVars, now, clock, nreq,
                   nticks, stopSignalled, joinTimedOut, endRuns, alertVars,
                   reqHist, raceVars, stepVars, mlflow_available, experiment_id, nrec,
                   svcCalls>>

\* start_run(): mlflow.start_run returns or raises, the assignment of
\* current_run, the return.  mlflow.start_run raises when a run is active
\* (the call passes no nested=True) or when the service fails; otherwise it
\* creates a run and makes it the active one
StartRunReturn(t, fails) ==
    /\ rpc[t] = "start_run"
    /\ IF fails \/ svcStack # <<>> \/ ~CanCreate(svcRuns)
       THEN /\ rret' = [rret EXCEPT ![t] = <<"start_run", None>>]
            /\ UNCHANGED <<current_run, svcStack, svcRuns>>
       ELSE /\ svcRuns' = Created(svcRuns)
            /\ svcStack' = Append(svcStack, FreshRun(svcRuns))
            /\ current_run' = FreshRun(svcRuns)
            /\ rret' = [rret EXCEPT ![t] = <<"start_run", FreshRun(svcRuns)>>]
    /\ rpc' = [rpc EXCEPT ![t] = "idle"]
    /\ lastOp' = <<"start_run_return", t>>
    /\ UNCHANGED <<monitorVars, threadVars, trackerVars, now, clock, nreq,
                   nticks, stopSignalled, joinTimedOut, endRuns, alertVars,
                   reqHist, raceVars, stepVars, mlflow_available, experiment_id, nrec,
                   svcCalls>>

\* end_run(): the guard, up to the call of mlflow.end_run
EndRunCall(t, seq) ==
    /\ RecMayCall(t, seq)
    /\ nrec' = nrec + 1
    /\ IF mlflow_available /\ current_run # None
       THEN RecEnter(t, "end_run")
       ELSE RecSkip(t, "end_run", None)
    /\ UNCHANGED <<monitorVars, threadVars, trackerVars, now, clock, nreq,
                   nticks, stopSignalled, joinTimedOut, endRuns, alertVars,
                   reqHist, raceVars, stepVars, mlflow_available, experiment_id,
                   current_run, svcStack, svcRuns>>

\* mlflow.end_run(): ends the active run, if there is one
EndActive(stack, runs) ==
    IF stack = <<>> THEN runs
    ELSE [runs EXCEPT ![stack[Len(stack)]] =
              [@ EXCEPT !.status = "FINISHED", !.closes = @ + 1]]

\* end_run() with line 105 dropped: current_run is kept
EndRunReturnKeep(t, fails) ==
    /\ rpc[t] = "end_run"
    /\ IF fails
       THEN UNCHANGED <<current_run, svcStack, svcRuns>>
       ELSE /\ svcRuns' = EndActive(svcStack, svcRuns)
            /\ svcStack' = IF svcStack = <<>> THEN <<>>
                           ELSE SubSeq(svcStack, 1, Len(svcStack) - 1)
            /\ UNCHANGED current_run
    /\ rret' = [rret EXCEPT ![t] = <<"end_run", None>>]
    /\ rpc' = [rpc EXCEPT ![t] = "idle"]
    /\ lastOp' = <<"end_run_return", t>>
    /\ UNCHANGED <<monitorVars, threadVars, trackerVars, now, clock, nreq,
                   nticks, stopSignalled, joinTimedOut, endRuns, alertVars,
                   reqHist, raceVars, stepVars, mlflow_available, experiment_id, nrec,
                   svcCalls>>

\* end_run(): mlflow.end_run returns and current_run is cleared, or it raises
\* and the except clause leaves current_run as it was
EndRunReturn(t, fails) ==
    /\ rpc[t] = "end_run"
    /\ IF fails
       THEN UNCHANGED <<current_run, svcStack, svcRuns>>
       ELSE /\ svcRuns' = EndActive(svcStack, svcRuns)
            /\ svcStack' = IF svcStack = <<>> THEN <<>>
                           ELSE SubSeq(svcStack, 1, Len(svcStack) - 1)
            /\ current_run' = None
    /\ rret' = [rret EXCEPT ![t] = <<"end_run", None>>]
    /\ rpc' = [rpc EXCEPT ![t] = "idle"]
    /\ lastOp' = <<"end_run_return", t>>
    /\ UNCHANGED <<monitorVars, threadVars, trackerVars, now, clock, nreq,
                   nticks, stopSignalled, joinTimedOut, endRuns, alertVars,
                   reqHist, raceVars, stepVars, mlflow_available, experiment_id, nrec,
                   svcCalls>>

\* log_*_experiment() with the guard on mlflow_available dropped
LogCallUnguarded(t, seq, kind) ==
    /\ RecMayCall(t, seq)
    /\ nrec' = nrec + 1
    /\ RecEnter(t, "log")
    /\ UNCHANGED <<monitorVars, threadVars, trackerVars, now, clock, nreq,
                   nticks, stopSignalled, joinTimedOut, endRuns, alertVars,
                   reqHist, raceVars, stepVars, mlflow_available, experiment_id,
                   current_run, svcStack, svcRuns>>

\* log_llm_experiment / log_pdf_experiment / log_qa_experiment: the guard, up
\* to the first call of mlflow.log_params
LogCall(t, seq, kind) ==
    /\ RecMayCall(t, seq)
    /\ nrec' = nrec + 1
    /\ IF ~mlflow_available
       THEN RecSkip(t, "log", None)
       ELSE RecEnter(t, "log")
    /\ UNCHANGED <<monitorVars, threadVars, trackerVars, now, clock, nreq,
                   nticks, stopSignalled, joinTimedOut, endRuns, alertVars,
                   reqHist, raceVars, stepVars, mlflow_available, experiment_id,
                   current_run, svcStack, svcRuns>>

\* log_*_experiment(): mlflow.log_params / log_metrics write to the active
\* run, creating and activating a run first when none is active; a failure
\* of the service is caught by the except clause
LogReturn(t, fails) ==
    /\ rpc[t] = "log"
    /\ IF fails \/ (svcStack = <<>> /\ ~CanCreate(svcRuns))
       THEN UNCHANGED <<svcStack, svcRuns>>
       ELSE LET runs == IF svcStack = <<>> THEN Created(svcRuns) ELSE svcRuns
                stack == IF svcStack = <<>> THEN <<FreshRun(svcRuns)>>
                         ELSE svcStack
            IN /\ svcStack' = stack
               /\ svcRuns' = [runs EXCEPT ![stack[Len(stack)]].writes = @ + 1]
    /\ rret' = [rret EXCEPT ![t] = <<"log", None>>]
    /\ rpc' = [rpc EXCEPT ![t] = "idle"]
    /\ lastOp' = <<"log_return", t>>
    /\ UNCHANGED <<monitorVars, threadVars, trackerVars, now, clock, nreq,
                   nticks, stopSignalled, joinTimedOut, endRuns, alertVars,
                   reqHist, raceVars, stepVars, mlflow_available, experiment_id,
                   current_run, nrec, svcCalls>>

\* compare_models / get_best_model / export_experiment_data /
\* cleanup_old_runs: the guard, up to the call of mlflow.search_runs
QueryCall(t, seq, method) ==
    /\ RecMayCall(t, seq)
    /\ nrec' = nrec + 1
    /\ IF ~mlflow_available
       THEN RecSkip(t, method, None)
       ELSE RecEnter(t, "query")
    /\ UNCHANGED <<monitorVars, threadVars, trackerVars, now, clock, nreq,
                   nticks, stopSignalled, joinTimedOut, endRuns, alertVars,
                   reqHist, raceVars, stepVars, mlflow_available, experiment_id,
                   current_run, svcStack, svcRuns>>

\* the search returns or raises; no run of the model is old enough for
\* cleanup_old_runs to delete it
QueryReturn(t) ==
    /\ rpc[t] = "query"
    /\ rret' = [rret EXCEPT ![t] = <<"query", None>>]
    /\ rpc' = [rpc EXCEPT ![t] = "idle"]
    /\ lastOp' = <<"query_return", t>>
    /\ UNCHANGED <<monitorVars, threadVars, trackerVars, now, clock, nreq,
                   nticks, stopSignalled, joinTimedOut, endRuns, alertVars,
                   reqHist, raceVars, stepVars, mlflow_available, experiment_id,
                   current_run, svcStack, svcRuns, nrec, svcCalls>>

Manager(seq) ==
    \E t \in RecThreads :
        \/ StartRunCall(t, seq)
        \/ \E fails \in BOOLEAN : StartRunReturn(t, fails)
        \/ EndRunCall(t, seq)
        \/ \E fails \in BOOLEAN : EndRunReturn(t, fails)
        \/ \E kind \in LogKinds : LogCall(t, seq, kind)
        \/ \E fails \in BOOLEAN : LogReturn(t, fails)
        \/ \E method \in Queries : QueryCall(t, seq, method)
        \/ QueryReturn(t)

\* the recorder called from one thread at a time
NextManager == Manager(TRUE)
SpecManager == InitRecorder /\ [][NextManager]_vars

\* the recorder called from two threads
NextManagerThreads == Manager(FALSE)
SpecManagerThreads == InitRecorder /\ [][NextManagerThreads]_vars

\* ----------------------------------------------------------------- claims
\* C1: after every record_request call, every model state has
\* total_requests = successful_requests + failed_requests.
C1_ModelCountsAddUp ==
    \A m \in DOMAIN model_states :
        model_states[m].total_requests =
            model_states[m].successful_requests + model_states[m].failed_requests

C1_Witness ==
    /\ lastOp[1] = "record_request"
    /\ \E m \in DOMAIN model_states :
           /\ model_states[m].successful_requests >= 1
           /\ model_states[m].failed_requests >= 1

\* C2: at no time are two ticks of the sampling loop in progress at once.
C2_OneTickAtATime ==
    Cardinality({l \in Loops : lpc[l] = "tick"}) <= 1

\* C3: once stop_monitoring has signalled stop to a running loop, that loop
\* starts no further tick, whatever calls follow.
C3_NoTickAfterStop ==
    [][\A l \in Loops :
          (stopSignalled[l] /\ lpc[l] = "check") => lpc'[l] # "tick"]_vars

\* C4: start_monitoring called while is_monitoring is set returns at once:
\* no thread is created and the monitor's state and statistics are unchanged.
C4_StartWhileRunningIsNoop ==
    [][\A c \in Callers :
          (/\ is_monitoring
           /\ cpc[c] = "idle"
           /\ lastOp'[1] \in {"start_noop", "start_call"}
           /\ lastOp'[2] = c)
          => (/\ lastOp'[1] = "start_noop"
              /\ UNCHANGED <<monitorVars, threadVars>>)]_vars

C4_Witness ==
    /\ lastOp[1] = "start_noop"
    /\ is_monitoring
    /\ monitor_thread # 0
    /\ lpc[monitor_thread] \in {"check", "tick"}
    /\ memory_usage # <<>>

C6_UniqueOperationIds ==
    /\ \A s, t \in Scopes :
          (s # t /\ spc[s] # "new" /\ spc[t] # "new") => opId[s] # opId[t]
    /\ Cardinality(DOMAIN active_operations)
           = Cardinality({s \in Scopes : spc[s] = "body"})

\* C7: an operation that has begun and has not ended is in the active set.
C7_ActiveUntilOwnEnd ==
    \A s \in Scopes :
        spc[s] = "body" =>
            /\ opId[s] \in DOMAIN active_operations
            /\ active_operations[opId[s]] = s

Occurrences(q, x) == Cardinality({i \in 1..Len(q) : q[i] = x})

\* C8: ending an operation a second time changes neither the active set nor
\* the completed history, where its record still appears at most once.
C8_SecondEndIgnored ==
    [][lastOp'[1] = "exit_again" =>
          /\ UNCHANGED <<active_operations, completed_operations,
                         operation_history, opstats, endRuns>>
          /\ \A s \in Scopes : Occurrences(completed_operations', s) <= 1]_vars

C8_Witness ==
    /\ lastOp[1] = "exit_again"
    /\ \E s \in Scopes :
          /\ spc[s] = "done"
          /\ Occurrences(completed_operations, s) = 1

\* C9: no operation record is both in the active set and in the completed
\* history.
C9_ActiveCompletedDisjoint ==
    Range(active_operations) \cap Range(completed_operations) = {}

C9_Witness ==
    /\ Range(active_operations) # {}
    /\ Range(completed_operations) # {}

\* the end bookkeeping of scope s has run exactly once and finalized the record
Finalized(s) ==
    /\ endRuns[s] = 1
    /\ s \notin Range(active_operations)
    /\ opstats[s].end_time # None
    /\ opstats[s].duration # None

\* C10 as stated: every scope that has exited was finalized exactly once, and
\* whenever its body raised, the metadata has 'error' and the exception went
\* on to the caller.
C10_EveryRaiseRecorded ==
    \A s \in Scopes :
        spc[s] = "done" =>
            /\ Finalized(s)
            /\ outcome[s] # "ok" => (opstats[s].error /\ raised[s])

\* C10 amended: every scope that has exited, normally or by raising, was
\* finalized exactly once and every record in the completed history has
\* end_time and duration; the exception, if any, went on to the caller, and
\* the metadata has 'error' when the exception was an Exception.
C10_EndBookkeeping ==
    /\ \A s \in Scopes :
          spc[s] = "done" =>
              /\ Finalized(s)
              /\ outcome[s] # "ok" => raised[s]
              /\ outcome[s] = "Exception" => opstats[s].error
    /\ \A s \in Range(completed_operations) :
          opstats[s].end_time # None /\ opstats[s].duration # None

C10_Witness ==
    /\ \E s \in Scopes :
          /\ spc[s] = "done"
          /\ outcome[s] = "Exception"
          /\ opstats[s].error
          /\ raised[s]
          /\ s \in Range(completed_operations)
    /\ \E s \in Scopes :
          /\ spc[s] = "done"
          /\ outcome[s] = "ok"
          /\ ~raised[s]

\* ------------------------------------------------ claims on the recorder
\* C11: the tracking service never holds more than one open run, and a
\* start_run that returns while a run is open returns no run id, opens no
\* run and leaves current_run as it was.
C11_OneOpenRun ==
    [][/\ Cardinality(OpenRuns(svcRuns')) <= 1
       /\ \A t \in RecThreads :
              (lastOp' = <<"start_run_return", t>> /\ OpenRuns(svcRuns) # {})
                  => /\ rret'[t] = <<"start_run", None>>
                     /\ UNCHANGED <<current_run, svcStack, svcRuns>>]_vars

\* a start_run has returned without a run id while the run of an earlier
\* start_run is still open and still the current run
C11_Witness ==
    /\ \E t \in RecThreads : /\ lastOp = <<"start_run_return", t>>
                             /\ rret[t] = <<"start_run", None>>
    /\ current_run # None
    /\ OpenRuns(svcRuns) = {current_run}

\* C12: a log_*_experiment call made while the recorder has no current run
\* makes no call to the tracking service and writes nothing to it.
C12_LogNeedsOpenRun ==
    [][\A t \in RecThreads :
           (lastOp' \in {<<"log_call", t>>, <<"log_return", t>>}
            /\ current_run = None)
               => UNCHANGED <<svcCalls, svcStack, svcRuns>>]_vars

\* C13 as stated: with no run open end_run changes nothing, and whenever
\* end_run has returned there is no current run and no run was closed twice.
C13_EndRunClears ==
    [][\A t \in RecThreads :
           /\ lastOp' = <<"end_run_skip", t>>
                  => UNCHANGED <<current_run, svcStack, svcRuns, svcCalls>>
           /\ lastOp' \in {<<"end_run_skip", t>>, <<"end_run_return", t>>}
                  => /\ current_run' = None
                     /\ \A r \in DOMAIN svcRuns' : svcRuns'[r].closes <= 1]_vars

\* C13: with no current run end_run changes nothing and calls nothing; an
\* end_run that reached the service either failed there and changed
\* nothing, or closed the current run once and left no current run; no run
\* is ever closed twice.
C13_EndRunIdempotent ==
    [][\A t \in RecThreads :
           /\ lastOp' = <<"end_run_skip", t>>
                  => UNCHANGED <<current_run, svcStack, svcRuns, svcCalls>>
           /\ lastOp' = <<"end_run_return", t>>
                  => \/ UNCHANGED <<current_run, svcStack, svcRuns>>
                     \/ /\ current_run' = None
                        /\ svcStack' = <<>>
                        /\ svcRuns' = [svcRuns EXCEPT ![current_run] =
                               [@ EXCEPT !.status = "FINISHED", !.closes = 1]]
           /\ \A r \in DOMAIN svcRuns' : svcRuns'[r].closes <= 1]_vars

\* a second end_run after the one that closed the run: it returned at its
\* guard, the run is closed once and there is no current run
C13_Witness ==
    /\ \E t \in RecThreads : lastOp = <<"end_run_skip", t>>
    /\ mlflow_available
    /\ current_run = None
    /\ \E r \in DOMAIN svcRuns :
           svcRuns[r].status = "FINISHED" /\ svcRuns[r].closes = 1

\* C14: while tracking is unavailable no call reaches the service, the
\* service holds no run, current_run stays None and every method has
\* returned None at its guard.
C14_UnavailableIsInert ==
    ~mlflow_available =>
        /\ svcCalls = 0
        /\ svcRuns = [r \in {} |-> NewRun]
        /\ svcStack = <<>>
        /\ current_run = None
        /\ \A t \in RecThreads : rpc[t] = "idle" /\ rret[t][2] = None

\* start_run has just returned None in unavailable mode, after another call
C14_Witness ==
    /\ ~mlflow_available
    /\ nrec >= 2
    /\ \E t \in RecThreads : /\ lastOp = <<"start_run_skip", t>>
                             /\ rret[t] = <<"start_run", None>>

\* C18: at most one thread is inside a call of the tracking service.
C18_OneServiceCallAtATime ==
    Cardinality({t \in RecThreads : rpc[t] # "idle"}) <= 1

\* ------------------------------------------- claims on the request counters
\* C15: every model's latency buffer holds at most ModelWindow entries, namely
\* the latencies of its most recent successful requests in order, and its
\* avg_response_time is their mean once a request succeeded; latencies of
\* failed requests are not in it.
C15_RollingWindow ==
    \A m \in DOMAIN model_states :
        LET recent == LastN(reqHist.latencies[m], ModelWindow)
        IN /\ Len(model_states[m].response_times) <= ModelWindow
           /\ model_states[m].response_times = recent
           /\ recent # <<>> => model_states[m].avg_response_time = Mean(recent)

\* more successful requests than the window holds, and a failed one among
\* the requests: the buffer is full and has evicted
C15_Witness ==
    /\ WindowModel \in DOMAIN model_states
    /\ Len(reqHist.latencies[WindowModel]) > ModelWindow
    /\ reqHist.total > reqHist.successful
    /\ Len(model_states[WindowModel].response_times) = ModelWindow
    /\ model_states[WindowModel].response_times[1] > 1

\* C16: get_system_status reports as availability the successful calls over
\* all calls of record_request made since construction or the last reset, and
\* 1.0 when there was none.
C16_Availability ==
    GetSystemStatus.availability =
        IF reqHist.total > 0 THEN <<reqHist.successful, reqHist.total>> ELSE One

\* right after a reset_stats that followed two requests: availability
\* is 1.0 again
C16_Witness ==
    /\ lastOp = <<"reset_stats", "">>
    /\ nreq >= 2
    /\ stats.total_requests = 0
    /\ GetSystemStatus.availability = One

\* C17: when every record_request call made has returned, total_requests is
\* the number of calls and each model's total_requests is the number of calls
\* that named it.
C17_NoLostUpdate ==
    (\A t \in Requesters : qpc[t] = "idle") =>
        /\ stats.total_requests = qdone
        /\ \A m \in Models :
               reqHist.named[m] = IF m \in DOMAIN model_states
                                  THEN model_states[m].total_requests ELSE 0

\* --------------------------------------------------- claims on the alerts
\* C19: every evaluation of _check_alerts triggers memory_high exactly once
\* when its memory sample is above the threshold and not at all otherwise,
\* whatever the evaluations before it triggered, and triggers no alert type
\* more than once.
C19_NoSuppression ==
    \A i \in 1..Len(alertLog) :
        /\ Occurrences(alertLog[i].alerts, "memory_high") =
               IF alertLog[i].mem > MemoryLimit THEN 1 ELSE 0
        /\ \A a \in AlertTypes : Occurrences(alertLog[i].alerts, a) <= 1

\* two evaluations in a row above the memory threshold, the second raising
\* all three alerts
C19_Witness ==
    /\ Len(alertLog) >= 2
    /\ alertLog[1].mem > MemoryLimit
    /\ alertLog[2].mem > MemoryLimit
    /\ alertLog[2].alerts =
           <<"memory_high", "response_time_high", "error_rate_high">>

\* every callback, at positions 1..n of alert_callbacks, called with every
\* alert, alert by alert
RECURSIVE AllCalls(_, _)
AllCalls(alerts, n) ==
    IF alerts = <<>> THEN <<>>
    ELSE [i \in 1..n |-> <<Head(alerts), i>>] \o AllCalls(Tail(alerts), n)

\* q is an initial part of r
IsPrefix(q, r) == Len(q) <= Len(r) /\ q = SubSeq(r, 1, Len(q))

\* C20 as stated: in every tick every alert found is triggered and passed to
\* every registered callback in registration order, whatever the callbacks
\* raise; the callbacks stay registered and the loop thread goes on.
C20_EveryCallbackCalled ==
    [][Len(alertLog') > Len(alertLog) =>
           LET e == alertLog'[Len(alertLog')]
           IN /\ e.alerts = e.found
              /\ e.calls = AllCalls(e.found, Len(alert_callbacks))
              /\ alert_callbacks' = alert_callbacks
              /\ \E l \in Loops : lpc[l] = "tick" /\ lpc'[l] = "check"]_vars

\* C20: in every tick the callbacks are called in registration order and stay
\* registered; when no registered callback raises anything but an Exception,
\* every alert found is passed to every callback and the loop thread goes on
\* to its next check.
C20_ExceptionsIsolated ==
    [][Len(alertLog') > Len(alertLog) =>
           LET e == alertLog'[Len(alertLog')]
               all == AllCalls(e.found, Len(alert_callbacks))
           IN /\ alert_callbacks' = alert_callbacks
              /\ IsPrefix(e.calls, all)
              /\ (\A i \in 1..Len(alert_callbacks) :
                      alert_callbacks[i] \in {"ok", "Exception"})
                     => /\ e.alerts = e.found
                        /\ e.calls = all
                        /\ \E l \in Loops : lpc[l] = "tick" /\ lpc'[l] = "check"]_vars

\* a tick raised memory_high with a raising callback registered before a
\* returning one: both were called, and the loop thread is at its next check
C20_Witness ==
    /\ alert_callbacks = <<"Exception", "ok">>
    /\ alertLog # <<>>
    /\ alertLog[Len(alertLog)].calls =
           <<(<<"memory_high", 1>>), (<<"memory_high", 2>>)>>
    /\ \E l \in Loops : lpc[l] = "check"

\* ------------------------------------------- claims on health and reset
\* a tick of the loop has completed in this step
Ticked == Len(alertLog') > Len(alertLog)

\* C21: after each health evaluation every model is 'inactive' when more
\* than InactiveMinutes have passed since its last activity and 'active'
\* otherwise.
C21_HealthRule ==
    [][Ticked =>
           \A m \in DOMAIN model_states' :
               model_states'[m].status =
                   IF now - model_states'[m].last_activity > InactiveMinutes
                   THEN "inactive" ELSE "active"]_vars

\* a tick has just classified a model idle for exactly InactiveMinutes as
\* active and one idle for longer as inactive
C21_Witness ==
    /\ lastOp = <<"tick_end", "">>
    /\ \E m, n \in DOMAIN model_states :
           /\ now - model_states[m].last_activity = InactiveMinutes
           /\ model_states[m].status = "active"
           /\ now - model_states[n].last_activity > InactiveMinutes
           /\ model_states[n].status = "inactive"

\* C22: reset_stats leaves the counters at zero, the three buffers and the
\* model states empty, and is_monitoring, the loop thread and its position
\* and the registered callbacks as they were.
C22_ResetFrame ==
    [][lastOp' = <<"reset_stats", "">> =>
           /\ stats'.total_requests = 0
           /\ stats'.successful_requests = 0
           /\ stats'.failed_requests = 0
           /\ stats'.avg_response_time = Zero
           /\ response_times' = <<>>
           /\ error_counts' = <<>>
           /\ memory_usage' = <<>>
           /\ DOMAIN model_states' = {}
           /\ UNCHANGED <<is_monitoring, monitor_thread, alert_callbacks, lpc>>]_vars

\* a reset was made while the loop was running with a callback registered
\* and models recorded, and the loop has ticked again since: the memory
\* buffer holds only the sample of that tick
C22_Witness ==
    /\ lastOp = <<"tick_end", "">>
    /\ is_monitoring
    /\ alert_callbacks # <<>>
    /\ nreq > 0
    /\ nticks >= 2
    /\ Len(memory_usage) = 1
    /\ DOMAIN model_states = {}

\* C23: a step that is not a tick leaves the status of every model it keeps
\* as it was, and a model it adds has status 'unknown'.
C23_StatusOnlyAtTick ==
    [][~Ticked =>
           \A m \in DOMAIN model_states' :
               IF m \in DOMAIN model_states
               THEN model_states'[m].status = model_states[m].status
               ELSE model_states'[m].status = "unknown"]_vars

\* a request has just been recorded for a model that a tick had classified
\* before: the status is still that of the tick
C23_Witness ==
    /\ lastOp = <<"record_request", "">>
    /\ \E m \in DOMAIN model_states :
           /\ model_states[m].status = "inactive"
           /\ model_states[m].last_activity = now

\* ------------------------------------ claims on the tracker's histories
\* C24: the completed list never holds more than CompletedCap records, and
\* it holds the records of the most recent operations in the order in which
\* they ended.
C24_CompletedCap ==
    /\ Len(completed_operations) <= CompletedCap
    /\ Len(completed_operations) =
           IF nops > CompletedCap THEN CompletedCap ELSE nops
    /\ \A i \in 1..Len(completed_operations) :
           completed_operations[i] =
               ObjectOf(nops - Len(completed_operations) + i)

\* the 101st operation and more have ended: the list is full and its oldest
\* record is no longer the first operation's
C24_Witness ==
    /\ nops > CompletedCap
    /\ Len(completed_operations) = CompletedCap
    /\ completed_operations[1] = ObjectOf(nops - CompletedCap + 1)
    /\ completed_operations[1] # ObjectOf(1)

\* C28: once no scope is between its end and its history entry, the summary
\* reports for every operation name as many durations as scopes of that name
\* have exited, at most HistoryCap.
C28_NoLostCompletion ==
    (\A s \in Scopes : spc[s] \in {"new", "begin", "body", "done"}) =>
        \A name \in OpNames :
            LET n == Cardinality({s \in Scopes :
                                     spc[s] = "done" /\ opName[s] = name})
                count == IF name \in DOMAIN GetPerformanceSummary
                         THEN GetPerformanceSummary[name].count ELSE 0
            IN count = IF n > HistoryCap THEN HistoryCap ELSE n

\* ----------------------------------- claims on the counters' consistency
\* C25: whenever no record_request call is under way, whatever the
\* interleaving of the calls made so far, successful_requests +
\* failed_requests = total_requests and the availability reported by
\* get_system_status lies between 0 and 1.
C25_CountersBalance ==
    (\A t \in Requesters : qpc[t] = "idle") =>
        /\ stats.successful_requests + stats.failed_requests =
               stats.total_requests
        /\ 0 <= GetSystemStatus.availability[1]
        /\ GetSystemStatus.availability[1] <= GetSystemStatus.availability[2]

\* C26: whenever no recorder call is under way, current_run is set exactly
\* when the tracking service has an open run.
C26_CurrentRunMirrors ==
    (\A t \in RecThreads : rpc[t] = "idle") =>
        ((current_run # None) <=> (OpenRuns(svcRuns) # {}))

\* C27: the avg_response_time reported by get_system_status is the mean of
\* the aggregate latency buffer, and 0.0 while the buffer is empty; two
\* fractions are compared by cross-multiplication.
C27_AverageIsMean ==
    LET avg == GetSystemStatus.avg_response_time
        mean == IF response_times # <<>> THEN Mean(response_times) ELSE Zero
    IN avg[1] * mean[2] = mean[1] * avg[2]

\* the sum of f over the keys in S
RECURSIVE SetSum(_, _)
SetSum(f, S) ==
    IF S = {} THEN 0
    ELSE LET x == CHOOSE y \in S : TRUE
         IN f[x] + SetSum(f, S \ {x})

\* C29: while every request recorded since construction or the last reset
\* named a model, the aggregate total_requests is the sum of total_requests
\* over all model states.
C29_TotalIsSumOfModels ==
    (reqHist.total = SetSum(reqHist.named, Models)) =>
        stats.total_requests =
            SetSum([m \in DOMAIN model_states |->
                        model_states[m].total_requests],
                   DOMAIN model_states)

\* after a reset, requests naming both models, one of them failed
C29_Witness ==
    /\ nreq > stats.total_requests
    /\ reqHist.total = SetSum(reqHist.named, Models)
    /\ DOMAIN model_states = Models
    /\ stats.failed_requests > 0
    /\ stats.total_requests >= 2

\* ------------------------------- claims on the concurrent health evaluation
\* C30: whenever a loop thread is not inside a health evaluation, the last
\* evaluation it began has visited every model that existed when it began,
\* whatever record_request calls ran meanwhile.
C30_EvaluationNotCutShort ==
    \A l \in Loops : lpc[l] # "health" => healthIter[l].left = {}


====
